---- MODULE Spec2Model ----
(***************************************************************************)
(* red-tomato: the Pomodoro timer engine (src/src/pomodoro.rs) and the     *)
(* host application that drives it (src/src/app.rs, src/src/db.rs).        *)
(*                                                                         *)
(* Time is counted in clock units; Res units make one second, so that a    *)
(* timestamp has sub-second resolution and chrono's num_seconds()          *)
(* truncation is visible.                                                  *)
(***************************************************************************)
EXTENDS Integers, Sequences, FiniteSets, TLC

\* ------------------------------------------------------------------ bounds

\* clock units per second (the sub-second resolution of a timestamp)
Res == 2

\* the last clock value of the model, in clock units
MaxClock == 8

Times == 0..MaxClock

\* the last clock value of the behaviours of the application
MaxHostClock == 12

\* seconds of the model that stand for five minutes of the application
FiveMinutes == 1

\* completions counted by the cycle history before it stops counting
MaxCompletions == 9

\* in the behaviours that follow the counter put in the records: how often a
\* button other than start / pause is pressed or the task edited, how often
\* the snapshot is saved, how often the application is started again, and for
\* how many clock units the behaviour goes on after the session it starts with
MaxPresses == 2
MaxSaves == 1
MaxRestarts == 1
RecordWindow == 4

\* the LIMIT load_focus_records uses when called with limit = 0: 1_000_000 in
\* the code, here more rows than the application stores in the behaviours
\* that are followed and fewer than the largest table drawn for the load
LoadAllLimit == 6

\* ------------------------------------------------------------ enumerations

\* Option<T>: None is the empty tuple, Some(x) the one-element tuple
None == <<>>
Some(x) == <<x>>

Focus == "Focus"
ShortBreak == "ShortBreak"
LongBreak == "LongBreak"
Phase == {Focus, ShortBreak, LongBreak}

Running == "Running"
Paused == "Paused"
Idle == "Idle"
TimerState == {Running, Paused, Idle}

\* PomodoroConfig::default(): 25, 5 and 15 minutes (60*25, 60*5 and 15*60
\* seconds) and a long break after 4 pomodoros, five minutes of the
\* application lasting FiveMinutes seconds of the model
PomodoroConfigDefault ==
    [focus_secs |-> 5 * FiveMinutes, short_break_secs |-> 1 * FiveMinutes,
     long_break_secs |-> 3 * FiveMinutes, pomodoros_before_long |-> 4]

\* PomodoroConfig values the engine is constructed with by
\* PomodoroState::new(config) (seconds, count)
PomodoroConfig ==
    { [focus_secs |-> 3, short_break_secs |-> 1, long_break_secs |-> 2,
       pomodoros_before_long |-> 2],
      [focus_secs |-> 1, short_break_secs |-> 1, long_break_secs |-> 1,
       pomodoros_before_long |-> 4],
      [focus_secs |-> 2, short_break_secs |-> 2, long_break_secs |-> 1,
       pomodoros_before_long |-> 1] }

\* task labels the user types into the task field
Tasks == {"", "A"}

VARIABLES
    pomo,          \* the PomodoroState (RedTomatoApp::pomo)
    clock,         \* the system clock read by Utc::now(), in clock units
    current_task,  \* RedTomatoApp::current_task
    focus_history, \* RedTomatoApp::focus_history, the in-memory cache
    db,            \* the rows of the focus_records table, in insertion order
    storage,       \* the persisted session snapshot (eframe storage slot)
    sound,         \* whether the last host update played the notification sound
    show_statistics, \* RedTomatoApp::show_statistics, the statistics window is open
    view,          \* the rows last computed for the statistics window
    fetched,        \* the rows last returned by load_focus_records
    restored,      \* history: a snapshot was fetched and no start/pause command came since
    run,           \* history: the undisturbed run since the last start()
                   \* (from: the state start() was called in, until the next tick)
    scen,          \* history: position in the start/tick/pause/resume/tick scenario
    cyc,           \* history: completions since the cycle began at Focus/0
    staged,        \* history: the phase ended by a completion not yet taken
    stale,         \* history: start() was called while a completion was staged
    tally          \* history: Focus phases the frames completed since the last long
                   \* break or reset, and what happened to that count (see NoTally)

host == <<current_task, focus_history, db, storage, sound, show_statistics, view, fetched,
         restored>>
history == <<run, scen, cyc, staged, stale, tally>>
vars == <<pomo, clock, current_task, focus_history, db, storage, sound, show_statistics,
          view, fetched,
          restored,
          run, scen, cyc, staged, stale, tally>>

\* --------------------------------------------------------- the timer engine

\* (now - last).num_seconds(): whole seconds, truncated toward zero
num_seconds(d) == IF d >= 0 THEN d \div Res ELSE -((-d) \div Res)

max0(x) == IF x >= 0 THEN x ELSE 0

PomodoroStateDefault(config) ==
    [ config |-> config,
      phase |-> Focus,
      state |-> Idle,
      remaining_secs |-> 0,
      phase_total_secs |-> 0,
      completed_pomodoros |-> 0,
      last_tick_at |-> None,
      finished_phase |-> None,
      last_completed_focus_duration_secs |-> None ]

\* start that is ignored unless the engine is Idle
start_only_from_idle(s, utc_now) ==
    IF s.state # Idle THEN s
    ELSE LET total == CASE s.phase = Focus -> s.config.focus_secs
                        [] s.phase = ShortBreak -> s.config.short_break_secs
                        [] s.phase = LongBreak -> s.config.long_break_secs
         IN [s EXCEPT !.phase_total_secs = total,
                      !.remaining_secs = total,
                      !.state = Running,
                      !.last_tick_at = Some(utc_now)]

start(s, utc_now) ==
    LET total == CASE s.phase = Focus -> s.config.focus_secs
                   [] s.phase = ShortBreak -> s.config.short_break_secs
                   [] s.phase = LongBreak -> s.config.long_break_secs
    IN [s EXCEPT !.phase_total_secs = total,
                 !.remaining_secs = total,
                 !.state = Running,
                 !.last_tick_at = Some(utc_now)]

\* toggle_pause whose resume restarts the countdown from the full duration
toggle_pause_restarts(s, utc_now) ==
    CASE s.state = Running -> [s EXCEPT !.state = Paused, !.last_tick_at = None]
      [] s.state = Paused -> [s EXCEPT !.state = Running,
                                       !.remaining_secs = s.phase_total_secs,
                                       !.last_tick_at = Some(utc_now)]
      [] s.state = Idle -> s

\* toggle_pause with the pause leaving last_tick_at set and the resume not
\* re-stamping it
toggle_pause_keeps_stamp(s, utc_now) ==
    CASE s.state = Running -> [s EXCEPT !.state = Paused]
      [] s.state = Paused -> [s EXCEPT !.state = Running]
      [] s.state = Idle -> s

toggle_pause(s, utc_now) ==
    CASE s.state = Running -> [s EXCEPT !.state = Paused, !.last_tick_at = None]
      [] s.state = Paused -> [s EXCEPT !.state = Running, !.last_tick_at = Some(utc_now)]
      [] s.state = Idle -> s

\* stop that also empties the completion mailbox
stop_clears_mailbox(s) ==
    [s EXCEPT !.state = Idle,
              !.remaining_secs = 0,
              !.phase_total_secs = 0,
              !.last_tick_at = None,
              !.finished_phase = None,
              !.last_completed_focus_duration_secs = None]

\* stop that forgets to zero phase_total_secs
stop_keeps_total(s) ==
    [s EXCEPT !.state = Idle,
              !.remaining_secs = 0,
              !.last_tick_at = None]

stop(s) ==
    [s EXCEPT !.state = Idle,
              !.remaining_secs = 0,
              !.phase_total_secs = 0,
              !.last_tick_at = None]

\* reset_pomodoros_and_stop that leaves the phase as it is
reset_pomodoros_and_stop_keeps_phase(s) ==
    stop([s EXCEPT !.completed_pomodoros = 0])

\* reset_pomodoros_and_stop that stops without clearing the counter
reset_pomodoros_and_stop_keeps_count(s) ==
    stop([s EXCEPT !.phase = Focus])

reset_pomodoros_and_stop(s) ==
    stop([s EXCEPT !.completed_pomodoros = 0, !.phase = Focus])

\* set_phase that is ignored unless the engine is Idle
set_phase_only_idle(s, phase) ==
    IF s.state = Idle THEN stop([s EXCEPT !.phase = phase]) ELSE s

set_phase(s, phase) ==
    stop([s EXCEPT !.phase = phase])

\* on_phase_finished that leaves the engine Running on the next phase
on_phase_finished_stays_running(s) ==
    LET s1 == [s EXCEPT !.finished_phase = Some(s.phase),
                        !.remaining_secs = 0,
                        !.phase_total_secs = 0]
        s2 == IF s.phase = Focus
              THEN [s1 EXCEPT !.last_completed_focus_duration_secs = Some(s.phase_total_secs)]
              ELSE s1
    IN IF s2.phase = Focus
       THEN LET n == s2.completed_pomodoros + 1
            IN IF n >= s2.config.pomodoros_before_long
               THEN [s2 EXCEPT !.phase = LongBreak, !.completed_pomodoros = 0]
               ELSE [s2 EXCEPT !.phase = ShortBreak, !.completed_pomodoros = n]
       ELSE [s2 EXCEPT !.phase = Focus]

\* on_phase_finished comparing the counter with > instead of >=
on_phase_finished_gt(s) ==
    LET s1 == [s EXCEPT !.finished_phase = Some(s.phase),
                        !.state = Idle,
                        !.remaining_secs = 0,
                        !.phase_total_secs = 0,
                        !.last_tick_at = None]
        s2 == IF s.phase = Focus
              THEN [s1 EXCEPT !.last_completed_focus_duration_secs = Some(s.phase_total_secs)]
              ELSE s1
    IN IF s2.phase = Focus
       THEN LET n == s2.completed_pomodoros + 1
            IN IF n > s2.config.pomodoros_before_long
               THEN [s2 EXCEPT !.phase = LongBreak, !.completed_pomodoros = 0]
               ELSE [s2 EXCEPT !.phase = ShortBreak, !.completed_pomodoros = n]
       ELSE [s2 EXCEPT !.phase = Focus]

\* on_phase_finished that never stages the focus duration
on_phase_finished_no_duration(s) ==
    LET s1 == [s EXCEPT !.finished_phase = Some(s.phase),
                        !.state = Idle,
                        !.remaining_secs = 0,
                        !.phase_total_secs = 0,
                        !.last_tick_at = None]
    IN IF s1.phase = Focus
       THEN LET n == s1.completed_pomodoros + 1
            IN IF n >= s1.config.pomodoros_before_long
               THEN [s1 EXCEPT !.phase = LongBreak, !.completed_pomodoros = 0]
               ELSE [s1 EXCEPT !.phase = ShortBreak, !.completed_pomodoros = n]
       ELSE [s1 EXCEPT !.phase = Focus]

\* on_phase_finished that reads phase_total_secs after zeroing it
on_phase_finished_zeroed_total(s) ==
    LET s1 == [s EXCEPT !.finished_phase = Some(s.phase),
                        !.state = Idle,
                        !.remaining_secs = 0,
                        !.phase_total_secs = 0,
                        !.last_tick_at = None]
        s2 == IF s.phase = Focus
              THEN [s1 EXCEPT !.last_completed_focus_duration_secs = Some(s1.phase_total_secs)]
              ELSE s1
    IN IF s2.phase = Focus
       THEN LET n == s2.completed_pomodoros + 1
            IN IF n >= s2.config.pomodoros_before_long
               THEN [s2 EXCEPT !.phase = LongBreak, !.completed_pomodoros = 0]
               ELSE [s2 EXCEPT !.phase = ShortBreak, !.completed_pomodoros = n]
       ELSE [s2 EXCEPT !.phase = Focus]

on_phase_finished(s) ==
    LET just_finished == s.phase
        total_secs == s.phase_total_secs
        s1 == [s EXCEPT !.finished_phase = Some(just_finished),
                        !.state = Idle,
                        !.remaining_secs = 0,
                        !.phase_total_secs = 0,
                        !.last_tick_at = None]
        s2 == IF just_finished = Focus
              THEN [s1 EXCEPT !.last_completed_focus_duration_secs = Some(total_secs)]
              ELSE s1
    IN IF s2.phase = Focus
       THEN LET n == s2.completed_pomodoros + 1
            IN IF n >= s2.config.pomodoros_before_long
               THEN [s2 EXCEPT !.phase = LongBreak, !.completed_pomodoros = 0]
               ELSE [s2 EXCEPT !.phase = ShortBreak, !.completed_pomodoros = n]
       ELSE [s2 EXCEPT !.phase = Focus]

\* tick that moves last_tick_at to now before the early return
tick_stamps_first(s, now) ==
    IF s.state # Running THEN s
    ELSE IF s.last_tick_at = None THEN s
    ELSE LET last == s.last_tick_at[1]
             elapsed == num_seconds(now - last)
             s0 == [s EXCEPT !.last_tick_at = Some(now)]
         IN IF elapsed <= 0 THEN s0
            ELSE LET s1 == [s0 EXCEPT !.remaining_secs = max0(s.remaining_secs - elapsed)]
                 IN IF s1.remaining_secs <= 0 THEN on_phase_finished(s1) ELSE s1

\* tick without the early return on a non-positive elapsed time
tick_no_guard(s, now) ==
    IF s.state # Running THEN s
    ELSE IF s.last_tick_at = None THEN s
    ELSE LET last == s.last_tick_at[1]
             elapsed == num_seconds(now - last)
             s1 == [s EXCEPT !.last_tick_at = Some(now),
                             !.remaining_secs = max0(s.remaining_secs - elapsed)]
         IN IF s1.remaining_secs <= 0 THEN on_phase_finished(s1) ELSE s1

tick(s, now) ==
    IF s.state # Running THEN s
    ELSE IF s.last_tick_at = None THEN s
    ELSE LET last == s.last_tick_at[1]
             elapsed == num_seconds(now - last)
         IN IF elapsed <= 0 THEN s
            ELSE LET s1 == [s EXCEPT !.last_tick_at = Some(now),
                                     !.remaining_secs = max0(s.remaining_secs - elapsed)]
                 IN IF s1.remaining_secs <= 0 THEN on_phase_finished(s1) ELSE s1

\* take_finished_phase that reads the slot without clearing it
take_finished_phase_peek(s) ==
    [ret |-> s.finished_phase, pomo |-> s]

take_finished_phase(s) ==
    [ret |-> s.finished_phase, pomo |-> [s EXCEPT !.finished_phase = None]]

\* take_last_completed_focus_duration that reads the slot without clearing it
take_last_completed_focus_duration_peek(s) ==
    [ret |-> s.last_completed_focus_duration_secs, pomo |-> s]

\* take_last_completed_focus_duration that empties both mailbox slots
take_last_completed_focus_duration_clears_both(s) ==
    [ret |-> s.last_completed_focus_duration_secs,
     pomo |-> [s EXCEPT !.last_completed_focus_duration_secs = None,
                        !.finished_phase = None]]

take_last_completed_focus_duration(s) ==
    [ret |-> s.last_completed_focus_duration_secs,
     pomo |-> [s EXCEPT !.last_completed_focus_duration_secs = None]]

\* progress that reports the fraction remaining instead of the fraction elapsed
progress_of_remaining(s) ==
    IF s.phase_total_secs <= 0 THEN [num |-> 0, den |-> 1]
    ELSE LET remaining == max0(s.remaining_secs)
         IN IF remaining > s.phase_total_secs
            THEN [num |-> 1, den |-> 1]
            ELSE [num |-> remaining, den |-> s.phase_total_secs]

\* progress(): the fraction elapsed / phase_total_secs as num / den, 0 when no
\* total is set, capped at 1 by min(1.0)
progress(s) ==
    IF s.phase_total_secs <= 0 THEN [num |-> 0, den |-> 1]
    ELSE LET remaining == max0(s.remaining_secs)
             elapsed == s.phase_total_secs - remaining
         IN IF elapsed > s.phase_total_secs
            THEN [num |-> 1, den |-> 1]
            ELSE [num |-> elapsed, den |-> s.phase_total_secs]

\* ------------------------------------------------- history (ghost) updates

\* a tick that ends the phase: the engine was Running and the tick leaves it Idle
Completes(s, now) == s.state = Running /\ tick(s, now).state = Idle

\* the tally of a new installation. n: Focus phases completed since the last
\* completed long break or reset; off_cycle: since the last reset a long break
\* completed that was not earned, a Focus completed while an earned long break
\* was outstanding, or the application was started from a snapshot that
\* predates a completion or reset; fresh: nothing was completed or reset since
\* the snapshot was saved (or since the installation, when none was saved);
\* presses, saves, restarts: how often so far; last: the last instant on the
\* clock of the behaviour
NoTally ==
    [n |-> 0, off_cycle |-> FALSE, fresh |-> TRUE,
     presses |-> 0, saves |-> 0, restarts |-> 0, last |-> 0]

NoRun == [on |-> FALSE, t0 |-> 0, D |-> 0, last |-> 0, from |-> Idle]
NoScen == [stage |-> "off", t0 |-> 0, d1 |-> 0, tr |-> 0, d2 |-> 0]

\* whole seconds between two timestamps, or -1 when they are not a whole
\* number of seconds apart (or b is before a)
WholeSecs(a, b) == IF b >= a /\ (b - a) % Res = 0 THEN (b - a) \div Res ELSE -1

ScenAfterTick(now) ==
    LET D == pomo.config.focus_secs
    IN CASE scen.stage = "started" ->
              LET d == WholeSecs(scen.t0, now)
              IN IF d >= 0 /\ d < D
                 THEN [scen EXCEPT !.stage = "ticked", !.d1 = d]
                 ELSE NoScen
         [] scen.stage = "paused" -> scen
         [] scen.stage = "resumed" ->
              LET d == WholeSecs(scen.tr, now)
              IN IF d >= 0 /\ scen.d1 + d < D
                 THEN [scen EXCEPT !.stage = "done", !.d2 = d]
                 ELSE NoScen
         [] OTHER -> NoScen

ScenAfterToggle ==
    CASE scen.stage = "ticked" -> [scen EXCEPT !.stage = "paused"]
      [] scen.stage = "paused" -> [scen EXCEPT !.stage = "resumed", !.tr = clock]
      [] OTHER -> NoScen

\* ------------------------------------------------------- engine operations

\* the state after construction with one of the configurations
Constructed(configs) ==
    /\ pomo \in {PomodoroStateDefault(c) : c \in configs}
    /\ clock = 0
    /\ current_task = ""
    /\ focus_history = <<>>
    /\ db = <<>>
    /\ storage = None
    /\ sound = FALSE
    /\ show_statistics = FALSE
    /\ view = <<>>
    /\ fetched = <<>>
    /\ restored = FALSE
    /\ run = NoRun
    /\ scen = NoScen
    /\ cyc = 0
    /\ staged = None
    /\ stale = FALSE
    /\ tally = NoTally

Init == Constructed(PomodoroConfig)

\* the system clock moves on, up to the instant last
AdvanceTo(last) ==
    /\ \E t \in 0..last : t > clock /\ clock' = t
    /\ UNCHANGED <<pomo, host, history>>

Advance == AdvanceTo(MaxClock)

Start ==
    /\ pomo' = start(pomo, clock)
    /\ run' = [on |-> TRUE, t0 |-> clock, D |-> pomo'.phase_total_secs, last |-> clock,
               from |-> pomo.state]
    /\ scen' = IF pomo.phase = Focus
               THEN [NoScen EXCEPT !.stage = "started", !.t0 = clock]
               ELSE NoScen
    /\ stale' = (stale \/ staged # None)
    /\ UNCHANGED <<clock, host, tally, cyc, staged>>

TogglePause ==
    /\ pomo' = toggle_pause(pomo, clock)
    /\ run' = NoRun
    /\ scen' = ScenAfterToggle
    /\ UNCHANGED <<clock, host, tally, cyc, staged, stale>>

Stop ==
    /\ pomo' = stop(pomo)
    /\ run' = NoRun
    /\ scen' = NoScen
    /\ UNCHANGED <<clock, host, tally, cyc, staged, stale>>

ResetPomodorosAndStop ==
    /\ pomo' = reset_pomodoros_and_stop(pomo)
    /\ run' = NoRun
    /\ scen' = NoScen
    /\ cyc' = 0
    /\ UNCHANGED <<clock, host, tally, staged, stale>>

SetPhase(phase) ==
    /\ pomo' = set_phase(pomo, phase)
    /\ run' = NoRun
    /\ scen' = NoScen
    /\ cyc' = -1
    /\ UNCHANGED <<clock, host, tally, staged, stale>>

Tick(now) ==
    /\ pomo' = tick(pomo, now)
    /\ run' = IF run.on /\ now >= run.last
              THEN [run EXCEPT !.last = now, !.from = Idle]
              ELSE NoRun
    /\ scen' = ScenAfterTick(now)
    /\ cyc' = IF cyc >= 0 /\ Completes(pomo, now)
              THEN (IF cyc < MaxCompletions THEN cyc + 1 ELSE -1)
              ELSE cyc
    /\ staged' = IF Completes(pomo, now) THEN Some(pomo.phase) ELSE staged
    /\ stale' = IF Completes(pomo, now) THEN FALSE ELSE stale
    /\ UNCHANGED <<clock, host, tally>>

TakeFinishedPhase ==
    /\ pomo' = take_finished_phase(pomo).pomo
    /\ staged' = None
    /\ stale' = FALSE
    /\ UNCHANGED <<clock, host, tally, run, scen, cyc>>

TakeLastCompletedFocusDuration ==
    /\ pomo' = take_last_completed_focus_duration(pomo).pomo
    /\ UNCHANGED <<clock, host, history>>

Next ==
    \/ Advance
    \/ Start
    \/ TogglePause
    \/ Stop
    \/ ResetPomodorosAndStop
    \/ \E phase \in Phase : SetPhase(phase)
    \/ \E now \in Times : Tick(now)
    \/ TakeFinishedPhase
    \/ TakeLastCompletedFocusDuration

Spec == Init /\ [][Next]_vars

\* ---------------------------------------------------------- the history store

\* insert_focus_record that writes the row twice
insert_focus_record_twice(rows, task, duration_secs, completed_at, completed_pomodoros) ==
    rows \o <<[id |-> Len(rows) + 1,
               task |-> task,
               duration_secs |-> duration_secs,
               completed_at |-> completed_at,
               completed_pomodoros |-> completed_pomodoros],
              [id |-> Len(rows) + 2,
               task |-> task,
               duration_secs |-> duration_secs,
               completed_at |-> completed_at,
               completed_pomodoros |-> completed_pomodoros]>>

\* INSERT INTO focus_records: the row gets the next AUTOINCREMENT id
insert_focus_record(rows, task, duration_secs, completed_at, completed_pomodoros) ==
    Append(rows, [id |-> Len(rows) + 1,
                  task |-> task,
                  duration_secs |-> duration_secs,
                  completed_at |-> completed_at,
                  completed_pomodoros |-> completed_pomodoros])

\* rows with row r put before the first row completed strictly earlier
RECURSIVE InsertDesc(_, _)
InsertDesc(r, sorted) ==
    IF sorted = <<>> THEN <<r>>
    ELSE IF Head(sorted).completed_at < r.completed_at
         THEN <<r>> \o sorted
         ELSE <<Head(sorted)>> \o InsertDesc(r, Tail(sorted))

\* ORDER BY completed_at DESC (rows of equal completed_at keep insertion order)
RECURSIVE OrderByCompletedAtDesc(_)
OrderByCompletedAtDesc(rows) ==
    IF rows = <<>> THEN <<>>
    ELSE InsertDesc(rows[Len(rows)],
                    OrderByCompletedAtDesc(SubSeq(rows, 1, Len(rows) - 1)))

load_focus_records(rows, limit) ==
    LET limit_val == IF limit > 0 THEN limit ELSE LoadAllLimit
        ordered == OrderByCompletedAtDesc(rows)
    IN IF Len(ordered) <= limit_val THEN ordered ELSE SubSeq(ordered, 1, limit_val)

\* ------------------------------------------------------------------ the host

FocusRecord(task, duration_secs, completed_at, completed_pomodoros) ==
    [task |-> task,
     duration_secs |-> duration_secs,
     completed_at |-> completed_at,
     completed_pomodoros |-> completed_pomodoros]

phase_to_str(p) ==
    CASE p = Focus -> "Focus"
      [] p = ShortBreak -> "ShortBreak"
      [] p = LongBreak -> "LongBreak"

phase_from_str(str) ==
    CASE str = "ShortBreak" -> ShortBreak
      [] str = "LongBreak" -> LongBreak
      [] OTHER -> Focus

state_to_str(st) ==
    CASE st = Idle -> "Idle"
      [] st = Running -> "Running"
      [] st = Paused -> "Paused"

state_from_str(str) ==
    CASE str = "Running" -> Running
      [] str = "Paused" -> Paused
      [] OTHER -> Idle

\* beijing_now_rfc3339(): the clock as an RFC 3339 string at the fixed offset
\* +08:00. Strings of one fixed offset order as their instants do, so the
\* record keeps the instant and completed_at is compared as a number.
beijing_now_rfc3339(utc_now) == utc_now

\* load_focus_history_from_db: the cache is replaced only when the store opens
\* and the query succeeds (db_ok)
load_focus_history_from_db(history_cache, rows, db_ok) ==
    IF db_ok
    THEN LET loaded == load_focus_records(rows, 0)
         IN [i \in 1..Len(loaded) |->
                FocusRecord(loaded[i].task, loaded[i].duration_secs,
                            loaded[i].completed_at, loaded[i].completed_pomodoros)]
    ELSE history_cache

\* RedTomatoApp::save: the PersistedState written to the storage slot
PersistedState(task, s) ==
    [current_task |-> task,
     phase |-> phase_to_str(s.phase),
     state |-> state_to_str(s.state),
     remaining_secs |-> s.remaining_secs,
     phase_total_secs |-> s.phase_total_secs,
     completed_pomodoros |-> s.completed_pomodoros]

\* new that restores the snapshot without its remaining_secs
new_drops_remaining(config, stored) ==
    LET app == [pomo |-> PomodoroStateDefault(config), current_task |-> ""]
    IN IF stored = None THEN app
       ELSE LET p == stored[1]
                loaded_state == state_from_str(p.state)
            IN [pomo |-> [app.pomo EXCEPT
                            !.phase = phase_from_str(p.phase),
                            !.state = IF loaded_state = Running THEN Paused
                                      ELSE loaded_state,
                            !.phase_total_secs = p.phase_total_secs,
                            !.completed_pomodoros = p.completed_pomodoros],
                current_task |-> p.current_task]

\* new without the downgrade of a saved Running to Paused
new_keeps_running(config, stored) ==
    LET app == [pomo |-> PomodoroStateDefault(config), current_task |-> ""]
    IN IF stored = None THEN app
       ELSE LET p == stored[1]
            IN [pomo |-> [app.pomo EXCEPT
                            !.phase = phase_from_str(p.phase),
                            !.state = state_from_str(p.state),
                            !.remaining_secs = p.remaining_secs,
                            !.phase_total_secs = p.phase_total_secs,
                            !.completed_pomodoros = p.completed_pomodoros],
                current_task |-> p.current_task]

\* RedTomatoApp::new: the default app, then the snapshot's fields when one is stored
new(config, stored) ==
    LET app == [pomo |-> PomodoroStateDefault(config), current_task |-> ""]
    IN IF stored = None THEN app
       ELSE LET p == stored[1]
                loaded_state == state_from_str(p.state)
            IN [pomo |-> [app.pomo EXCEPT
                            !.phase = phase_from_str(p.phase),
                            !.state = IF loaded_state = Running THEN Paused
                                      ELSE loaded_state,
                            !.remaining_secs = p.remaining_secs,
                            !.phase_total_secs = p.phase_total_secs,
                            !.completed_pomodoros = p.completed_pomodoros],
                current_task |-> p.current_task]

\* list.sort_by(completed_at ascending): a stable sort, rec goes after every
\* element that is not later
RECURSIVE InsertAsc(_, _)
InsertAsc(rec, sorted) ==
    IF sorted = <<>> THEN <<rec>>
    ELSE IF rec.completed_at < Head(sorted).completed_at
         THEN <<rec>> \o sorted
         ELSE <<Head(sorted)>> \o InsertAsc(rec, Tail(sorted))

RECURSIVE SortAsc(_)
SortAsc(list) ==
    IF list = <<>> THEN <<>>
    ELSE InsertAsc(list[Len(list)], SortAsc(SubSeq(list, 1, Len(list) - 1)))

\* with_sum.sort_by(completed_at descending): a stable sort of the pairs
RECURSIVE InsertPairDesc(_, _)
InsertPairDesc(pair, sorted) ==
    IF sorted = <<>> THEN <<pair>>
    ELSE IF pair.r.completed_at > Head(sorted).r.completed_at
         THEN <<pair>> \o sorted
         ELSE <<Head(sorted)>> \o InsertPairDesc(pair, Tail(sorted))

RECURSIVE SortPairsDesc(_)
SortPairsDesc(pairs) ==
    IF pairs = <<>> THEN <<>>
    ELSE InsertPairDesc(pairs[Len(pairs)], SortPairsDesc(SubSeq(pairs, 1, Len(pairs) - 1)))

\* the value of task_cumulative for a task after the pairs pushed so far
RECURSIVE task_cumulative(_, _)
task_cumulative(with_sum, task) ==
    IF with_sum = <<>> THEN 0
    ELSE IF with_sum[Len(with_sum)].r.task = task
         THEN with_sum[Len(with_sum)].sum
         ELSE task_cumulative(SubSeq(with_sum, 1, Len(with_sum) - 1), task)

\* the loop adding completed_pomodoros as it is, a 0 adding nothing
RECURSIVE WithSum_no_floor(_)
WithSum_no_floor(list) ==
    IF list = <<>> THEN <<>>
    ELSE LET with_sum == WithSum_no_floor(SubSeq(list, 1, Len(list) - 1))
             r == list[Len(list)]
         IN Append(with_sum, [r |-> r,
                              sum |-> task_cumulative(with_sum, r.task) + r.completed_pomodoros])

\* the loop over the sorted list: each record is pushed with its task's running sum
RECURSIVE WithSum(_)
WithSum(list) ==
    IF list = <<>> THEN <<>>
    ELSE LET with_sum == WithSum(SubSeq(list, 1, Len(list) - 1))
             r == list[Len(list)]
             add == IF r.completed_pomodoros = 0 THEN 1 ELSE r.completed_pomodoros
         IN Append(with_sum, [r |-> r, sum |-> task_cumulative(with_sum, r.task) + add])

\* the view that sums in descending order of completed_at
focus_rows_summed_descending(focus_records) ==
    LET desc == SortPairsDesc([i \in 1..Len(focus_records) |-> [r |-> focus_records[i], sum |-> 0]])
    IN WithSum([i \in 1..Len(desc) |-> desc[i].r])

focus_rows_sorted_with_cumulative_tomatoes(focus_records) ==
    SortPairsDesc(WithSum(SortAsc(focus_records)))

\* what the user does in a frame: nothing, one of the buttons of ui_full, a
\* new text in the task field, or a button of the statistics window
Inputs ==
    {[kind |-> "none"], [kind |-> "start_pause"], [kind |-> "reset"],
     [kind |-> "done"], [kind |-> "statistics"], [kind |-> "refresh"],
     [kind |-> "close"]}
    \cup {[kind |-> "phase", phase |-> p] : p \in Phase}
    \cup {[kind |-> "edit", task |-> t] : t \in Tasks}

\* the instants the application reads from the system clock
HostTimes == 0..MaxHostClock

\* drain that puts the record in the cache only when the insert succeeded
drain_cache_on_success(s, task, history_cache, rows, utc_now, record_now, db_ok) ==
    LET ticked == tick(s, utc_now)
        fin == take_finished_phase(ticked)
    IN IF fin.ret = Some(Focus)
       THEN LET dur == take_last_completed_focus_duration(fin.pomo)
            IN IF dur.ret # None /\ db_ok
               THEN LET duration_secs == dur.ret[1]
                        completed_at == beijing_now_rfc3339(record_now)
                        completed_pomodoros == dur.pomo.completed_pomodoros
                    IN [pomo |-> dur.pomo,
                        sound |-> TRUE,
                        db |-> IF db_ok
                               THEN insert_focus_record(rows, task, duration_secs,
                                                        completed_at, completed_pomodoros)
                               ELSE rows,
                        focus_history |->
                            <<FocusRecord(task, duration_secs, completed_at,
                                          completed_pomodoros)>> \o history_cache]
               ELSE [pomo |-> dur.pomo, sound |-> TRUE, db |-> rows,
                     focus_history |-> history_cache]
       ELSE [pomo |-> fin.pomo, sound |-> FALSE, db |-> rows,
             focus_history |-> history_cache]

\* drain that reads completed_pomodoros before the tick of the frame
drain_counter_before_tick(s, task, history_cache, rows, utc_now, record_now, db_ok) ==
    LET ticked == tick(s, utc_now)
        fin == take_finished_phase(ticked)
    IN IF fin.ret = Some(Focus)
       THEN LET dur == take_last_completed_focus_duration(fin.pomo)
            IN IF dur.ret # None
               THEN LET duration_secs == dur.ret[1]
                        completed_at == beijing_now_rfc3339(record_now)
                        completed_pomodoros == s.completed_pomodoros
                    IN [pomo |-> dur.pomo,
                        sound |-> TRUE,
                        db |-> IF db_ok
                               THEN insert_focus_record(rows, task, duration_secs,
                                                        completed_at, completed_pomodoros)
                               ELSE rows,
                        focus_history |->
                            <<FocusRecord(task, duration_secs, completed_at,
                                          completed_pomodoros)>> \o history_cache]
               ELSE [pomo |-> dur.pomo, sound |-> TRUE, db |-> rows,
                     focus_history |-> history_cache]
       ELSE [pomo |-> fin.pomo, sound |-> FALSE, db |-> rows,
             focus_history |-> history_cache]

\* RedTomatoApp::update up to the drain of the mailbox: tick(Utc::now()) with
\* the clock reading utc_now, take the finished phase, and for a finished
\* Focus play the sound and record it; completed_at is a second reading of
\* the clock, record_now, taken after the sound
drain(s, task, history_cache, rows, utc_now, record_now, db_ok) ==
    LET ticked == tick(s, utc_now)
        fin == take_finished_phase(ticked)
    IN IF fin.ret = Some(Focus)
       THEN LET dur == take_last_completed_focus_duration(fin.pomo)
            IN IF dur.ret # None
               THEN LET duration_secs == dur.ret[1]
                        completed_at == beijing_now_rfc3339(record_now)
                        completed_pomodoros == dur.pomo.completed_pomodoros
                    IN [pomo |-> dur.pomo,
                        sound |-> TRUE,
                        db |-> IF db_ok
                               THEN insert_focus_record(rows, task, duration_secs,
                                                        completed_at, completed_pomodoros)
                               ELSE rows,
                        focus_history |->
                            <<FocusRecord(task, duration_secs, completed_at,
                                          completed_pomodoros)>> \o history_cache]
               ELSE [pomo |-> dur.pomo, sound |-> TRUE, db |-> rows,
                     focus_history |-> history_cache]
       ELSE [pomo |-> fin.pomo, sound |-> FALSE, db |-> rows,
             focus_history |-> history_cache]

\* the buttons of ui_full / ui_compact, on the state after the drain; start()
\* and toggle_pause() read the clock themselves, utc_now is what they read
ui(s, input, utc_now) ==
    CASE input.kind = "start_pause" ->
            IF s.state = Idle THEN start(s, utc_now) ELSE toggle_pause(s, utc_now)
      [] input.kind \in {"reset", "done"} -> reset_pomodoros_and_stop(s)
      [] input.kind = "phase" ->
            IF s.state = Idle THEN set_phase(s, input.phase) ELSE s
      [] OTHER -> s

\* ui_statistics: the rows of the statistics window for the cached history
ui_statistics(history_cache) ==
    IF history_cache = <<>> THEN <<>>
    ELSE focus_rows_sorted_with_cumulative_tomatoes(history_cache)

\* the frame's tick completes a Focus phase
FocusCompletes == Completes(pomo, clock) /\ pomo.phase = Focus

\* the button pressed in this frame calls start() or resumes, which reads the clock
ReadsClock(input) ==
    /\ input.kind = "start_pause"
    /\ tick(pomo, clock).state \in {Idle, Paused}

\* RedTomatoApp::update: tick and drain, the buttons of the frame, then the
\* statistics window when it is open. The system clock is read by tick (it
\* reads clock), again for completed_at of a finished Focus (record_now) and
\* again by start() / toggle_pause() (ui_now); it moves on between the
\* readings. The buttons of the statistics window exist when it is open.
update(input, db_ok, reload_ok, record_now, ui_now) ==
    LET d == drain(pomo, current_task, focus_history, db, clock, record_now, db_ok)
        opened == show_statistics \/ input.kind = "statistics"
    IN /\ clock <= record_now
       /\ record_now <= ui_now
       /\ ~FocusCompletes => record_now = clock
       /\ ~ReadsClock(input) => ui_now = record_now
       /\ input.kind \in {"refresh", "close"} => show_statistics
       /\ pomo' = ui(d.pomo, input, ui_now)
       /\ clock' = ui_now
       /\ sound' = d.sound
       /\ db' = d.db
       /\ current_task' = CASE input.kind = "edit" -> input.task
                            [] input.kind \in {"reset", "done"} -> ""
                            [] OTHER -> current_task
       /\ view' = IF opened THEN ui_statistics(d.focus_history) ELSE view
       /\ focus_history' = IF input.kind = "refresh"
                           THEN load_focus_history_from_db(d.focus_history, d.db, reload_ok)
                           ELSE d.focus_history
       /\ show_statistics' = (opened /\ input.kind # "close")
       /\ restored' = (restored /\ input.kind # "start_pause")
       /\ UNCHANGED <<storage, fetched>>

Update(input, db_ok, reload_ok, record_now, ui_now) ==
    /\ update(input, db_ok, reload_ok, record_now, ui_now)
    /\ UNCHANGED history

\* RedTomatoApp::save on the fields of the application
save ==
    /\ storage' = Some(PersistedState(current_task, pomo))
    /\ UNCHANGED <<pomo, clock, current_task, focus_history, db, sound, show_statistics,
                   view, fetched, restored>>

Save ==
    /\ save
    /\ UNCHANGED history

\* the process ends and is started again: RedTomatoApp::new on the fields of
\* the application
restart(reload_ok) ==
    LET app == new(pomo.config, storage)
    IN /\ pomo' = app.pomo
       /\ current_task' = app.current_task
       /\ focus_history' = load_focus_history_from_db(<<>>, db, reload_ok)
       /\ sound' = FALSE
       /\ show_statistics' = FALSE
       /\ view' = <<>>
       /\ restored' = (storage # None)
       /\ UNCHANGED <<clock, db, storage, fetched>>

New(reload_ok) ==
    /\ restart(reload_ok)
    /\ UNCHANGED history

HostAdvance == AdvanceTo(MaxHostClock)

\* what the clock can read for completed_at in this frame, and what it can
\* read after that in start() / toggle_pause()
RecordReadings(last) == IF FocusCompletes THEN clock..last ELSE {clock}
UiReadings(input, record_now, last) ==
    IF ReadsClock(input) THEN record_now..last ELSE {record_now}

\* the outcomes of the store that make a difference in this frame
InsertOutcomes == IF FocusCompletes THEN BOOLEAN ELSE {TRUE}
ReloadOutcomes(input) == IF input.kind = "refresh" THEN BOOLEAN ELSE {TRUE}

HostNext ==
    \/ HostAdvance
    \/ \E input \in Inputs, db_ok \in InsertOutcomes :
          \E reload_ok \in ReloadOutcomes(input), record_now \in RecordReadings(MaxHostClock) :
             \E ui_now \in UiReadings(input, record_now, MaxHostClock) :
                Update(input, db_ok, reload_ok, record_now, ui_now)
    \/ Save
    \/ \E reload_ok \in BOOLEAN : New(reload_ok)

\* the application starts with the default configuration
HostInit == Constructed({PomodoroConfigDefault})

SpecHost == HostInit /\ [][HostNext]_vars

\* --------------------------------------------- the counter put in a record

\* the tally t after the tick and drain of a frame that reads now from the
\* clock, the engine being s. A completed Focus counts one more, and is off
\* the cycle when pomodoros_before_long of them were already counted (the long
\* break they earned was left out); a completed long break starts the count
\* again, and is off the cycle when it was not earned, that is when some but
\* fewer than pomodoros_before_long were counted
tally_after_drain(s, now, t) ==
    IF ~Completes(s, now) THEN t
    ELSE IF s.phase = Focus
         THEN [t EXCEPT
                 !.n = @ + 1,
                 !.off_cycle = @ \/ t.n >= s.config.pomodoros_before_long,
                 !.fresh = FALSE]
    ELSE IF s.phase = LongBreak
         THEN [t EXCEPT
                 !.n = 0,
                 !.off_cycle = @ \/ t.n \notin {0, s.config.pomodoros_before_long},
                 !.fresh = FALSE]
    ELSE t

\* the tally after the buttons of the frame: the reset button starts the
\* count again and puts it back on the cycle
tally_after_ui(s, now, input, t) ==
    IF input.kind \in {"reset", "done"}
    THEN [tally_after_drain(s, now, t) EXCEPT
             !.n = 0, !.off_cycle = FALSE, !.fresh = FALSE]
    ELSE tally_after_drain(s, now, t)

TallyAfterDrain == tally_after_drain(pomo, clock, tally)

\* the user does something other than start / pause in this frame: new text
\* in the task field, or a button that is enabled (a phase button is when the
\* engine is Idle after the tick of the frame)
Pressed(input) ==
    /\ input.kind \notin {"none", "start_pause"}
    /\ input.kind = "phase" => tick(pomo, clock).state = Idle

TallyAfterUi(input) ==
    LET t == tally_after_ui(pomo, clock, input, tally)
    IN IF Pressed(input) THEN [t EXCEPT !.presses = @ + 1] ELSE t

\* a frame, counted by the tally
UpdateTallied(input, db_ok, reload_ok, record_now, ui_now) ==
    /\ Pressed(input) => tally.presses < MaxPresses
    /\ update(input, db_ok, reload_ok, record_now, ui_now)
    /\ tally' = TallyAfterUi(input)
    /\ UNCHANGED <<run, scen, cyc, staged, stale>>

\* save, after which the snapshot is up to date
SaveTallied ==
    /\ tally.saves < MaxSaves
    /\ save
    /\ tally' = [tally EXCEPT !.fresh = TRUE, !.saves = @ + 1]
    /\ UNCHANGED <<run, scen, cyc, staged, stale>>

\* the application is started again; what was completed stays completed, and
\* a snapshot that is not up to date takes the count off the cycle
NewTallied(reload_ok) ==
    /\ tally.restarts < MaxRestarts
    /\ restart(reload_ok)
    /\ tally' = [tally EXCEPT !.off_cycle = @ \/ ~tally.fresh, !.restarts = @ + 1]
    /\ UNCHANGED <<run, scen, cyc, staged, stale>>

\* RedTomatoApp::new without a snapshot and with an empty store, and the
\* tally of a new installation
Installed ==
    [pomo |-> PomodoroStateDefault(PomodoroConfigDefault),
     clock |-> 0,
     current_task |-> "",
     focus_history |-> <<>>,
     db |-> <<>>,
     sound |-> FALSE,
     tally |-> NoTally]

\* RedTomatoApp::update as a function of the fields of the application a, for
\* a frame in which the statistics window is closed and the user edits the
\* task or uses the timer buttons: the clock reads utc_now in tick,
\* record_now for completed_at and ui_now in start() / toggle_pause()
frame(a, input, db_ok, utc_now, record_now, ui_now) ==
    LET d == drain(a.pomo, a.current_task, a.focus_history, a.db, utc_now,
                   record_now, db_ok)
    IN [pomo |-> ui(d.pomo, input, ui_now),
        clock |-> ui_now,
        current_task |-> CASE input.kind = "edit" -> input.task
                           [] input.kind \in {"reset", "done"} -> ""
                           [] OTHER -> a.current_task,
        focus_history |-> d.focus_history,
        db |-> d.db,
        sound |-> d.sound,
        tally |-> tally_after_ui(a.pomo, utc_now, input, a.tally)]

\* a step of a session: what the user does in a frame, and how many seconds
\* of the countdown are left when the frame is taken (a frame is taken at
\* once when no countdown runs)
Step(input, left) == [input |-> input, left |-> left]

\* the instant of the frame of step st, after the frames that led to a
FrameInstant(a, st) ==
    IF a.pomo.state = Running
    THEN a.pomo.last_tick_at[1] + (a.pomo.remaining_secs - st.left) * Res
    ELSE a.clock

\* the fields of the application after the frames of session, each taken at
\* its instant with the store open and one reading of the clock, from a
RECURSIVE PlayFrom(_, _)
PlayFrom(a, session) ==
    IF session = <<>> THEN a
    ELSE LET st == Head(session)
             now == FrameInstant(a, st)
             b == frame(a, st.input, TRUE, now, now, now)
         IN IF b.clock >= a.clock THEN PlayFrom(b, Tail(session)) ELSE a

\* the fields of the application after session, from a new installation
Play(session) == PlayFrom(Installed, session)

\* the steps of a session: start / pause pressed, a frame at the end of the
\* countdown, a frame one second before its end, a phase button, the reset
\* button, new text in the task field
PressStart == Step([kind |-> "start_pause"], 0)
AtTheEnd == Step([kind |-> "none"], 0)
NearTheEnd == Step([kind |-> "none"], 1)
PressPhase(p) == Step([kind |-> "phase", phase |-> p], 0)
PressReset == Step([kind |-> "reset"], 0)
Edit(task) == Step([kind |-> "edit", task |-> task], 0)

\* k phases of the automatic cycle, each started at once and left to run out
RECURSIVE Phases(_)
Phases(k) == IF k = 0 THEN <<>> ELSE Phases(k - 1) \o <<PressStart, AtTheEnd>>

\* session, and then the phase it leads to started and one second from its end
NearTheEndAfter(session) == session \o <<PressStart, NearTheEnd>>

\* the sessions the behaviours start with: a new installation; the first
\* Focus running; the Focus after a short break that was skipped by selecting
\* Focus; the second Focus of the automatic cycle, with a task; its fourth
\* Focus (the wrap); a Focus selected by hand in place of the long break that
\* was earned; the Focus after the automatic long break; the Focus after a
\* long break selected by hand when one Focus was counted; and the same with
\* the reset button pressed after that long break
Sessions ==
    LET N == PomodoroConfigDefault.pomodoros_before_long
    IN {<<>>,
        NearTheEndAfter(<<>>),
        NearTheEndAfter(Phases(1) \o <<PressPhase(Focus)>>),
        NearTheEndAfter(<<Edit("A")>> \o Phases(2)),
        NearTheEndAfter(Phases(2 * N - 2)),
        NearTheEndAfter(Phases(2 * N - 1) \o <<PressPhase(Focus)>>),
        NearTheEndAfter(Phases(2 * N)),
        NearTheEndAfter(Phases(2) \o <<PressPhase(LongBreak), PressStart, AtTheEnd>>),
        NearTheEndAfter(Phases(2) \o <<PressPhase(LongBreak), PressStart, AtTheEnd,
                                       PressReset>>)}

\* the system clock moves on, in any state of the timer and to any instant
\* of the behaviour
RecordAdvance == AdvanceTo(tally.last)

\* every frame, save and restart of the application, counted by the tally
RecordNext ==
    \/ RecordAdvance
    \/ \E input \in Inputs, db_ok \in InsertOutcomes :
          \E reload_ok \in ReloadOutcomes(input), record_now \in RecordReadings(tally.last) :
             \E ui_now \in UiReadings(input, record_now, tally.last) :
                UpdateTallied(input, db_ok, reload_ok, record_now, ui_now)
    \/ SaveTallied
    \/ \E reload_ok \in BOOLEAN : NewTallied(reload_ok)

\* the application after one of the sessions, nothing saved yet, the
\* statistics window closed; the behaviour goes on for RecordWindow clock units
RecordInit ==
    \E session \in Sessions :
       LET a == Play(session)
       IN /\ pomo = a.pomo
          /\ clock = a.clock
          /\ current_task = a.current_task
          /\ focus_history = a.focus_history
          /\ db = a.db
          /\ storage = None
          /\ sound = a.sound
          /\ show_statistics = FALSE
          /\ view = <<>>
          /\ fetched = <<>>
          /\ restored = FALSE
          /\ run = NoRun
          /\ scen = NoScen
          /\ cyc = 0
          /\ staged = None
          /\ stale = FALSE
          /\ tally = [a.tally EXCEPT !.last = a.clock + RecordWindow]

SpecRecord == RecordInit /\ [][RecordNext]_vars

\* ------------------------------------------------------ the statistics view

\* the most records a history drawn for the statistics view holds, and the
\* largest completed_pomodoros of a record
MaxRecords == 3
MaxTomatoes == 2

\* histories of up to MaxRecords records completed at distinct instants
\* (completions of the application are at least a second apart), in any order
StatRecords ==
    [task : {"A", "B"},
     duration_secs : {PomodoroConfigDefault.focus_secs},
     completed_at : 1..MaxRecords,
     completed_pomodoros : 0..MaxTomatoes]

Histories ==
    UNION {{h \in [1..n -> StatRecords] :
               \A i, j \in 1..n : i # j => h[i].completed_at # h[j].completed_at}
           : n \in 0..MaxRecords}

\* ui_statistics: the rows shown for the cached history
ShowStatistics ==
    /\ view' = ui_statistics(focus_history)
    /\ UNCHANGED <<pomo, clock, current_task, focus_history, db, storage, sound,
                   show_statistics, fetched, restored, history>>

StatsInit ==
    /\ pomo = PomodoroStateDefault(PomodoroConfigDefault)
    /\ clock = 0
    /\ current_task = ""
    /\ focus_history \in Histories
    /\ db = <<>>
    /\ storage = None
    /\ sound = FALSE
    /\ show_statistics = FALSE
    /\ view = <<>>
    /\ fetched = <<>>
    /\ restored = FALSE
    /\ run = NoRun
    /\ scen = NoScen
    /\ cyc = 0
    /\ staged = None
    /\ stale = FALSE
    /\ tally = NoTally

StatsNext == ShowStatistics

SpecStats == StatsInit /\ [][StatsNext]_vars

\* ------------------------------------------------------- loading the store

\* the most rows of a table drawn for the load: one more than LIMIT lets through
MaxRows == LoadAllLimit + 1

\* tables of n rows, numbered in insertion order and completed at the
\* distinct instants 1..n, inserted in any order
StoredRows(n) ==
    {[i \in 1..n |-> [id |-> i,
                      task |-> "A",
                      duration_secs |-> PomodoroConfigDefault.focus_secs,
                      completed_at |-> p[i],
                      completed_pomodoros |-> 1]] : p \in Permutations(1..n)}

Tables == UNION {StoredRows(n) : n \in 0..MaxRows}

\* the limits load_focus_records is called with: 0 (all) up to one more than
\* the table can hold
Limits == 0..(MaxRows + 1)

LoadFocusRecords(limit) ==
    /\ fetched' = load_focus_records(db, limit)
    /\ UNCHANGED <<pomo, clock, current_task, focus_history, db, storage, sound,
                   show_statistics, view, restored, history>>

LoadInit ==
    /\ pomo = PomodoroStateDefault(PomodoroConfigDefault)
    /\ clock = 0
    /\ current_task = ""
    /\ focus_history = <<>>
    /\ db \in Tables
    /\ storage = None
    /\ sound = FALSE
    /\ show_statistics = FALSE
    /\ view = <<>>
    /\ fetched = <<>>
    /\ restored = FALSE
    /\ run = NoRun
    /\ scen = NoScen
    /\ cyc = 0
    /\ staged = None
    /\ stale = FALSE
    /\ tally = NoTally

LoadNext == \E limit \in Limits : LoadFocusRecords(limit)

SpecLoad == LoadInit /\ [][LoadNext]_vars

\* ------------------------------------------------- an undisturbed countdown

\* the caller of the engine chooses and starts a phase when the engine is
\* Idle and takes what a completion staged; while a countdown runs its only
\* calls of the engine are tick(now) with the reading of the clock
LiveNext ==
    \/ (pomo.state = Idle /\ \E phase \in Phase : SetPhase(phase))
    \/ (pomo.state = Idle /\ Start)
    \/ TakeFinishedPhase
    \/ TakeLastCompletedFocusDuration
    \/ Advance
    \/ Tick(clock)

\* the clock keeps moving until the horizon MaxClock and the caller keeps
\* calling tick with what it reads
SpecLive ==
    /\ Init
    /\ [][LiveNext]_vars
    /\ WF_vars(Advance)
    /\ WF_vars(Tick(clock))

\* ------------------------------------------------------------------ claims

\* a step in which tick(now) ends the running phase
Completion(now) == pomo.state = Running /\ pomo'.state = Idle /\ Tick(now)

\* C1: for a phase started at t0 with duration D and kept Running, after ticks
\* with non-decreasing timestamps, the last at t, remaining_secs equals
\* max(0, D - floor(t - t0)) whatever the spacing of the ticks.
AccurateCountdown ==
    run.on => pomo.remaining_secs = max0(run.D - ((run.last - run.t0) \div Res))

\* C2: start a Focus phase of duration D, tick d1 whole seconds later, pause,
\* tick at any timestamps while Paused, resume, tick d2 whole seconds after the
\* resume (d1 + d2 < D): remaining_secs = D - d1 - d2.
PauseResumeFreeze ==
    scen.stage = "done" =>
        pomo.remaining_secs = pomo.config.focus_secs - scen.d1 - scen.d2

PauseResumeFreezeWitness ==
    /\ scen.stage = "done"
    /\ scen.d1 >= 1
    /\ scen.d2 >= 1
    /\ scen.tr >= scen.t0 + scen.d1 * Res + Res
    /\ pomo.remaining_secs = 1

\* the phase and counter after k completions of a cycle that began at
\* Focus with completed_pomodoros = 0, for pomodoros_before_long = n
FocusDone(k) == (k + 1) \div 2
CyclePhase(k, n) ==
    IF k % 2 = 0 THEN Focus
    ELSE IF FocusDone(k) % n = 0 THEN LongBreak ELSE ShortBreak
CycleCount(k, n) == FocusDone(k) % n

\* C3: from Focus with completed_pomodoros = 0, the phases visited are Focus,
\* ShortBreak, Focus, ... with every N-th Focus completion leading to LongBreak
\* and completed_pomodoros = 0 in that same step; every break leads to Focus.
PhaseCycle ==
    cyc >= 0 =>
        /\ pomo.phase = CyclePhase(cyc, pomo.config.pomodoros_before_long)
        /\ pomo.completed_pomodoros = CycleCount(cyc, pomo.config.pomodoros_before_long)

PhaseCycleWitness ==
    /\ cyc = 7
    /\ pomo.config.pomodoros_before_long = 4
    /\ pomo.phase = LongBreak
    /\ pomo.completed_pomodoros = 0

\* C4: after a completion the first take_finished_phase() returns the phase
\* that just ended, and every further call returns empty until another
\* completion occurs.
AtMostOnceDelivery == take_finished_phase(pomo).ret = staged

AtMostOnceDeliveryWitness ==
    /\ cyc = 1
    /\ pomo.state = Idle
    /\ pomo.phase # Focus
    /\ staged = None
    /\ pomo.last_completed_focus_duration_secs # None

\* C5 as stated: a completion never occurs while finished_phase still holds an
\* undrained value from an earlier completion.
NeverOverwritten ==
    [][\A now \in Times : Completion(now) => pomo.finished_phase = None]_vars

\* C5 amended: a completion occurs while finished_phase still holds an
\* undrained value only if start() was called while that value was staged.
OverwrittenOnlyAfterStart ==
    [][\A now \in Times : Completion(now) => (pomo.finished_phase = None \/ stale)]_vars

OverwrittenOnlyAfterStartWitness ==
    /\ cyc = 2
    /\ staged = Some(ShortBreak)
    /\ ~stale
    /\ pomo.last_completed_focus_duration_secs = None

\* C6: across tick(now) calls while Running, remaining_secs never increases
\* from one tick to the next and is never negative (checked for every
\* timestamp, the non-decreasing ones included).
CountdownMonotone ==
    [][pomo.state = Running =>
          \A now \in Times : Tick(now) =>
              /\ pomo'.remaining_secs <= pomo.remaining_secs
              /\ pomo'.remaining_secs >= 0]_vars

CountdownMonotoneWitness ==
    /\ pomo.state = Running
    /\ run.on
    /\ run.last > run.t0
    /\ pomo.remaining_secs > 0
    /\ pomo.remaining_secs < pomo.phase_total_secs

\* C7: Idle implies remaining_secs = 0 and phase_total_secs = 0; Running or
\* Paused implies 0 <= remaining_secs <= phase_total_secs.
CountdownRange ==
    /\ pomo.state = Idle => (pomo.remaining_secs = 0 /\ pomo.phase_total_secs = 0)
    /\ pomo.state \in {Running, Paused} =>
           (0 <= pomo.remaining_secs /\ pomo.remaining_secs <= pomo.phase_total_secs)

CountdownRangeWitness ==
    /\ pomo.state = Paused
    /\ pomo.remaining_secs = 1
    /\ pomo.phase_total_secs = 3

\* C9 as stated: after a Focus completion at most one of finished_phase and
\* last_completed_focus_duration_secs is populated.
AtMostOneSlot ==
    [][\A now \in Times : (Completion(now) /\ pomo.phase = Focus) =>
            ~(/\ pomo'.finished_phase # None
              /\ pomo'.last_completed_focus_duration_secs # None)]_vars

\* C9 amended: after a Focus completion both mailbox slots are populated.
BothSlotsStaged ==
    [][\A now \in Times : (Completion(now) /\ pomo.phase = Focus) =>
            /\ pomo'.finished_phase # None
            /\ pomo'.last_completed_focus_duration_secs # None]_vars

BothSlotsStagedWitness ==
    /\ staged = Some(Focus)
    /\ pomo.finished_phase # None
    /\ pomo.last_completed_focus_duration_secs # None
    /\ pomo.state = Idle
    /\ pomo.phase = ShortBreak

\* C10: when a Focus phase completes, take_finished_phase() drains Focus and
\* take_last_completed_focus_duration() drains the configured duration (> 0);
\* a break completion does not populate last_completed_focus_duration_secs.
FocusDurationStaged ==
    [][\A now \in Times : Completion(now) =>
            IF pomo.phase = Focus
            THEN /\ take_finished_phase(pomo').ret = Some(Focus)
                 /\ take_last_completed_focus_duration(pomo').ret
                        = Some(pomo.config.focus_secs)
                 /\ pomo.config.focus_secs > 0
            ELSE /\ take_finished_phase(pomo').ret = Some(pomo.phase)
                 /\ pomo'.last_completed_focus_duration_secs
                        = pomo.last_completed_focus_duration_secs]_vars

FocusDurationStagedWitness ==
    /\ pomo.finished_phase = Some(Focus)
    /\ pomo.last_completed_focus_duration_secs = Some(3)
    /\ run.on
    /\ run.last - run.t0 > 3 * Res

\* C8: last_tick_at is present if and only if state is Running, in every state
\* the application reaches, the state restored from a snapshot included.
LastTickIffRunning == (pomo.last_tick_at # None) <=> (pomo.state = Running)

LastTickIffRunningWitness ==
    /\ storage # None
    /\ storage[1].state = "Running"
    /\ pomo.state = Paused
    /\ pomo.last_tick_at = None
    /\ pomo.remaining_secs = storage[1].remaining_secs
    /\ sound = FALSE
    /\ focus_history # <<>>

\* C11: completed_pomodoros becomes 0 by a Focus completion whose increment
\* reaches pomodoros_before_long (the next phase is then LongBreak) or by
\* reset_pomodoros_and_stop(); a Focus completion below the threshold adds
\* exactly 1; start, toggle_pause, stop, set_phase, a tick without completion,
\* a break completion and the take_ accessors leave the counter alone.
CounterResets ==
    [][LET c == pomo.completed_pomodoros
           n == pomo.config.pomodoros_before_long
       IN /\ (\/ Start \/ TogglePause \/ Stop
              \/ (\E phase \in Phase : SetPhase(phase))
              \/ TakeFinishedPhase \/ TakeLastCompletedFocusDuration)
                 => pomo'.completed_pomodoros = c
          /\ ResetPomodorosAndStop => pomo'.completed_pomodoros = 0
          /\ \A now \in Times : Tick(now) =>
                IF Completes(pomo, now) /\ pomo.phase = Focus
                THEN IF c + 1 = n
                     THEN pomo'.completed_pomodoros = 0 /\ pomo'.phase = LongBreak
                     ELSE /\ c + 1 < n
                          /\ pomo'.completed_pomodoros = c + 1
                          /\ pomo'.phase = ShortBreak
                ELSE pomo'.completed_pomodoros = c]_vars

CounterResetsWitness ==
    /\ cyc = 3
    /\ pomo.config.pomodoros_before_long = 2
    /\ pomo.completed_pomodoros = 0
    /\ pomo.phase = LongBreak
    /\ pomo.state = Idle
    /\ staged = Some(Focus)

\* C12: the tick that drives remaining_secs to 0 leaves state = Idle,
\* remaining_secs = 0, phase_total_secs = 0 and last_tick_at absent; from Idle
\* no tick changes the state, and the only step that leaves Idle is start().
NoAutoAdvance ==
    [][/\ \A now \in Times :
              (/\ pomo.state = Running
               /\ pomo.remaining_secs > 0
               /\ Tick(now)
               /\ pomo'.remaining_secs = 0)
              => /\ pomo'.state = Idle
                 /\ pomo'.phase_total_secs = 0
                 /\ pomo'.last_tick_at = None
       /\ (pomo.state = Idle /\ \E now \in Times : Tick(now)) => pomo'.state = Idle
       /\ (pomo.state = Idle /\ pomo'.state # Idle) => Start]_vars

NoAutoAdvanceWitness ==
    /\ pomo.state = Idle
    /\ pomo.phase = ShortBreak
    /\ staged = Some(Focus)
    /\ run.on
    /\ run.D = 3
    /\ run.last > run.t0 + 3 * Res
    /\ pomo.remaining_secs = 0
    /\ pomo.phase_total_secs = 0
    /\ pomo.last_tick_at = None

\* C13: the engine never samples a clock itself: the state after start() and
\* after toggle_pause() is the same whatever the system clock reads at the
\* call, so engines given the same operations and the same caller-supplied
\* timestamps agree.
NoSelfSampledClock ==
    \A t \in Times :
        /\ start(pomo, t) = start(pomo, clock)
        /\ toggle_pause(pomo, t) = toggle_pause(pomo, clock)

\* the configured duration of the current phase
ConfiguredDuration(s) ==
    CASE s.phase = Focus -> s.config.focus_secs
      [] s.phase = ShortBreak -> s.config.short_break_secs
      [] s.phase = LongBreak -> s.config.long_break_secs

\* C14: start() in any state (Idle, Running, Paused) ends with state = Running
\* and remaining_secs = phase_total_secs = the configured duration of the
\* current phase, and changes neither phase nor completed_pomodoros.
StartAlwaysRestarts ==
    [][Start =>
          /\ pomo'.state = Running
          /\ pomo'.remaining_secs = ConfiguredDuration(pomo)
          /\ pomo'.phase_total_secs = ConfiguredDuration(pomo)
          /\ pomo'.phase = pomo.phase
          /\ pomo'.completed_pomodoros = pomo.completed_pomodoros]_vars

\* start() has just been called on a Paused engine
StartAlwaysRestartsWitness ==
    /\ run.on
    /\ run.from = Paused
    /\ run.last = run.t0
    /\ pomo.state = Running
    /\ pomo.phase = ShortBreak
    /\ pomo.remaining_secs = pomo.config.short_break_secs
    /\ pomo.completed_pomodoros = 1

\* progress() of s read as a fraction lies in [0, 1], is the elapsed share of
\* phase_total_secs when a total is set and 0 when none is, and
\* remaining_secs = 0 is seen only in Idle, where it reads 0
ProgressInRange(s) ==
    LET p == progress(s)
    IN /\ p.den > 0
       /\ 0 <= p.num
       /\ p.num <= p.den
       /\ s.phase_total_secs > 0 =>
             /\ 0 <= s.phase_total_secs - s.remaining_secs
             /\ s.phase_total_secs - s.remaining_secs <= s.phase_total_secs
             /\ p.num = s.phase_total_secs - s.remaining_secs
             /\ p.den = s.phase_total_secs
       /\ s.phase_total_secs = 0 => p.num = 0
       /\ s.remaining_secs = 0 => (s.state = Idle /\ p.num = 0)

\* C15: progress() is within [0, 1] in every reachable state, is 0 right
\* after start(), and once remaining_secs is 0 the engine is Idle and
\* progress() reads 0.
ProgressBounds ==
    /\ ProgressInRange(pomo)
    /\ [][/\ ProgressInRange(pomo')
          /\ Start => progress(pomo').num = 0]_vars

ProgressBoundsWitness ==
    /\ pomo.state = Running
    /\ progress(pomo) = [num |-> 2, den |-> 3]
    /\ run.on
    /\ run.last > run.t0

\* C16: after the host loads a persisted snapshot the engine is not Running
\* (a saved Running becomes Paused, last_tick_at is absent) and remaining_secs
\* is the saved value; until the user issues start()/toggle_pause() no tick
\* changes remaining_secs, and only that command makes the engine Running.
NoResumeAcrossRestart ==
    [][/\ \A reload_ok \in BOOLEAN :
              (New(reload_ok) /\ storage # None) =>
                  /\ pomo'.state # Running
                  /\ pomo'.last_tick_at = None
                  /\ pomo'.remaining_secs = storage[1].remaining_secs
                  /\ storage[1].state = "Running" => pomo'.state = Paused
       /\ restored =>
              /\ pomo.state # Running
              /\ \A now \in Times : tick(pomo, now).remaining_secs = pomo.remaining_secs
       /\ (restored /\ pomo'.state = Running) =>
              \E db_ok \in BOOLEAN, reload_ok \in BOOLEAN, record_now \in HostTimes :
                  Update([kind |-> "start_pause"], db_ok, reload_ok, record_now, clock')]_vars

\* a snapshot saved while Running was fetched and a later frame has ticked
\* (the task was edited since) with remaining_secs still the saved value
NoResumeAcrossRestartWitness ==
    /\ restored
    /\ storage # None
    /\ storage[1].state = "Running"
    /\ storage[1].remaining_secs = 2
    /\ pomo.state = Paused
    /\ pomo.remaining_secs = 2
    /\ current_task # storage[1].current_task
    /\ clock = MaxHostClock

\* C17: a frame whose tick completes a Focus phase creates exactly one
\* FocusRecord (put at the front of the cache and appended once to the store
\* when the store opens); a frame that completes a break or nothing creates
\* none; no step of the application modifies or deletes a stored row, so the
\* store only grows by appends.
OneRecordPerFocus ==
    [][/\ \A db_ok \in BOOLEAN, record_now \in HostTimes :
              (record_now >= clock /\ (FocusCompletes \/ record_now = clock)) =>
                  LET d == drain(pomo, current_task, focus_history, db, clock, record_now,
                                 db_ok)
                  IN IF FocusCompletes
                     THEN /\ Len(d.focus_history) = Len(focus_history) + 1
                          /\ Tail(d.focus_history) = focus_history
                          /\ Head(d.focus_history).completed_at = record_now
                          /\ Head(d.focus_history).duration_secs = pomo.config.focus_secs
                          /\ Len(d.db) = IF db_ok THEN Len(db) + 1 ELSE Len(db)
                     ELSE /\ d.focus_history = focus_history
                          /\ d.db = db
       /\ db' # db =>
              /\ FocusCompletes
              /\ \E input \in Inputs, reload_ok \in BOOLEAN, record_now \in HostTimes :
                     Update(input, TRUE, reload_ok, record_now, clock')
              /\ Len(db') = Len(db) + 1
              /\ SubSeq(db', 1, Len(db)) = db
              /\ db'[Len(db')].completed_at >= clock
              /\ db'[Len(db')].completed_at <= clock'
              /\ db'[Len(db')].task = current_task
              /\ db'[Len(db')].duration_secs = pomo.config.focus_secs]_vars

OneRecordPerFocusWitness ==
    /\ Len(db) = 2
    /\ db[1].completed_at < db[2].completed_at
    /\ db[1].id = 1
    /\ db[2].id = 2
    /\ Len(focus_history) = 2
    /\ focus_history[1].completed_at = db[2].completed_at

\* C18: when a finished Focus is drained and the store cannot be opened or the
\* insert fails, the cache still gains the new record at the front, the timer
\* state is the one a successful write leaves, and the missed row is not
\* written by any later step (every row is written in the frame of its own
\* completion).
BestEffortPersistence ==
    [][/\ FocusCompletes =>
              \A record_now \in HostTimes :
                  record_now >= clock =>
                      LET ok == drain(pomo, current_task, focus_history, db, clock,
                                      record_now, TRUE)
                          ko == drain(pomo, current_task, focus_history, db, clock,
                                      record_now, FALSE)
                      IN /\ ko.focus_history =
                                <<FocusRecord(current_task, pomo.config.focus_secs,
                                              record_now, ko.pomo.completed_pomodoros)>>
                                    \o focus_history
                         /\ ko.focus_history = ok.focus_history
                         /\ ko.pomo = ok.pomo
                         /\ ko.sound = ok.sound
                         /\ ko.db = db
                         /\ ok.db # db
                         /\ \A input \in Inputs, reload_ok \in BOOLEAN :
                                Update(input, FALSE, reload_ok, record_now, clock') =>
                                    /\ pomo' = ui(ok.pomo, input, clock')
                                    /\ db' = db
                                    /\ input.kind # "refresh" =>
                                           focus_history' = ok.focus_history
       /\ db' # db =>
              /\ FocusCompletes
              /\ db'[Len(db')].completed_at >= clock
              /\ db'[Len(db')].completed_at <= clock']_vars

\* a Focus record is in the cache and not in the store, and later frames have run
BestEffortPersistenceWitness ==
    /\ Len(focus_history) = 1
    /\ db = <<>>
    /\ focus_history[1].duration_secs = PomodoroConfigDefault.focus_secs
    /\ clock > focus_history[1].completed_at
    /\ pomo.phase = ShortBreak
    /\ pomo.state = Running
    /\ pomo.remaining_secs = 1

\* C19: at any point of a session, replacing the cache by the result of
\* load_focus_history_from_db (the store opening and the query succeeding)
\* yields the sequence of records the cache held before the reload.
ReloadLossless ==
    load_focus_history_from_db(focus_history, db, TRUE) = focus_history

\* max(1, completed_pomodoros) summed over the first n records of the history
\* that have the task and are not later than the instant
RECURSIVE TomatoesUpTo(_, _, _, _)
TomatoesUpTo(focus_records, n, task, completed_at) ==
    IF n = 0 THEN 0
    ELSE TomatoesUpTo(focus_records, n - 1, task, completed_at)
         + (IF /\ focus_records[n].task = task
               /\ focus_records[n].completed_at <= completed_at
            THEN (IF focus_records[n].completed_pomodoros >= 1
                  THEN focus_records[n].completed_pomodoros ELSE 1)
            ELSE 0)

\* C20: the rows shown hold every record of the history exactly once, in
\* descending order of completed_at, and the number attached to a record is
\* the sum of max(1, completed_pomodoros) over the records of the same task
\* completed not later than it; three task-A records of value 1 at
\* t1 < t2 < t3 show 3 at t3 and 1 at t1.
CumulativeTomatoes ==
    [][ShowStatistics =>
          /\ Len(view') = Len(focus_history)
          /\ \A i \in 1..Len(focus_history) :
                 Cardinality({k \in 1..Len(view') : view'[k].r = focus_history[i]}) = 1
          /\ \A k \in 1..Len(view') :
                 /\ k < Len(view') => view'[k].r.completed_at > view'[k + 1].r.completed_at
                 /\ view'[k].sum = TomatoesUpTo(focus_history, Len(focus_history),
                                                view'[k].r.task, view'[k].r.completed_at)
          /\ (/\ Len(focus_history) = 3
              /\ \A i \in 1..3 : /\ focus_history[i].task = "A"
                                 /\ focus_history[i].completed_pomodoros = 1)
             => (/\ view'[1].sum = 3
                 /\ view'[3].sum = 1
                 /\ \A i \in 1..3 :
                        /\ view'[1].r.completed_at >= focus_history[i].completed_at
                        /\ view'[3].r.completed_at <= focus_history[i].completed_at)]_vars

\* the rows for three task-A records of value 1 held most recent first
CumulativeTomatoesWitness ==
    /\ Len(view) = 3
    /\ \A k \in 1..3 : view[k].r.task = "A" /\ view[k].r.completed_pomodoros = 1
    /\ focus_history[1].completed_at = 3
    /\ focus_history[3].completed_at = 1
    /\ view[1].sum = 3
    /\ view[2].sum = 2
    /\ view[3].sum = 1

\* the cumulative counts of the rows, in display order
Sums(rows) == [k \in 1..Len(rows) |-> rows[k].sum]

\* the history with the completed_pomodoros of record i replaced by v
WithTomatoes(focus_records, i, v) ==
    [focus_records EXCEPT ![i].completed_pomodoros = v]

\* the running sum of the task of row k before row k was added: the sum shown
\* by the next older row of the same task, 0 when there is none
SumBefore(rows, k) ==
    LET older == {j \in (k + 1)..Len(rows) : rows[j].r.task = rows[k].r.task}
    IN IF older = {} THEN 0
       ELSE rows[CHOOSE j \in older : \A m \in older : j <= m].sum

\* C21: replacing a record's completed_pomodoros 0 by 1, or 1 by 0, changes no
\* cumulative count of any record, and a record with completed_pomodoros = 0
\* adds exactly 1 to its task's running sum.
ZeroPomodoroFloor ==
    [][ShowStatistics =>
          /\ \A i \in 1..Len(focus_history) :
                 focus_history[i].completed_pomodoros \in {0, 1} =>
                     Sums(focus_rows_sorted_with_cumulative_tomatoes(
                              WithTomatoes(focus_history, i,
                                           1 - focus_history[i].completed_pomodoros)))
                         = Sums(view')
          /\ \A k \in 1..Len(view') :
                 view'[k].r.completed_pomodoros = 0 =>
                     view'[k].sum = SumBefore(view', k) + 1]_vars

\* the rows for two records of one task, both with completed_pomodoros = 0
ZeroPomodoroFloorWitness ==
    /\ Len(view) = 2
    /\ view[1].r.task = view[2].r.task
    /\ view[1].r.completed_pomodoros = 0
    /\ view[2].r.completed_pomodoros = 0
    /\ view[1].sum = 2
    /\ view[2].sum = 1

\* what load_focus_records(limit) returns whatever the limit lets through: rows
\* of the store, the most recent first, and every row left out is older than
\* every row returned
MostRecentFirst ==
    /\ \A k \in 1..(Len(fetched') - 1) :
           fetched'[k].completed_at > fetched'[k + 1].completed_at
    /\ \A k \in 1..Len(fetched') : \E i \in 1..Len(db) : db[i] = fetched'[k]
    /\ \A i \in 1..Len(db) :
           (\A k \in 1..Len(fetched') : fetched'[k] # db[i]) =>
               \A k \in 1..Len(fetched') :
                   db[i].completed_at < fetched'[k].completed_at

\* C22: load_focus_records returns rows of the store ordered by completed_at
\* descending; with limit = 0 every row, with limit = k > 0 the k most recent
\* rows, or all of them when the store holds fewer than k.
LoadMostRecent ==
    [][\A limit \in Limits :
          LoadFocusRecords(limit) =>
              /\ Len(fetched') = IF limit = 0 \/ limit > Len(db) THEN Len(db) ELSE limit
              /\ MostRecentFirst]_vars

\* what the code does: limit = 0 stands for the limit LoadAllLimit, so it
\* returns the LoadAllLimit most recent rows of a larger store
LoadMostRecentUpToLimit ==
    [][\A limit \in Limits :
          LoadFocusRecords(limit) =>
              LET limit_val == IF limit = 0 THEN LoadAllLimit ELSE limit
              IN /\ Len(fetched') = IF limit_val > Len(db) THEN Len(db) ELSE limit_val
                 /\ MostRecentFirst]_vars

\* a store of more than LoadAllLimit rows was loaded with limit = 0 and the
\* oldest row is not among the rows returned
LoadAllLeavesOut ==
    /\ Len(db) = LoadAllLimit + 1
    /\ Len(fetched) = LoadAllLimit
    /\ \A k \in 1..Len(fetched) : fetched[k].completed_at > 1

\* C23: the host update that drains a completion plays the notification
\* sound, for a finished ShortBreak or LongBreak as for a finished Focus.
SoundOnEveryCompletion ==
    [][(/\ Completes(pomo, clock)
        /\ \E input \in Inputs, db_ok \in BOOLEAN, reload_ok \in BOOLEAN,
              record_now \in HostTimes :
               Update(input, db_ok, reload_ok, record_now, clock'))
       => sound']_vars

\* C24: tick(now) changes no field when state is Idle or Paused, and when
\* state is Running with now earlier than last_tick_at or less than one whole
\* second after it; a second tick with the same timestamp changes nothing
\* more.
TickNoOp ==
    \A now \in Times :
        /\ pomo.state \in {Idle, Paused} => tick(pomo, now) = pomo
        /\ (/\ pomo.state = Running
            /\ pomo.last_tick_at # None
            /\ now - pomo.last_tick_at[1] < Res) => tick(pomo, now) = pomo
        /\ tick(tick(pomo, now), now) = tick(pomo, now)

\* a Running countdown that has been ticked down, with the clock less than a
\* whole second past the last effective tick
TickNoOpWitness ==
    /\ pomo.state = Running
    /\ run.on
    /\ run.last > run.t0
    /\ pomo.last_tick_at = Some(run.last)
    /\ clock = run.last + 1
    /\ pomo.remaining_secs = 2
    /\ tick(pomo, clock) = pomo

\* C25: stop() from any state yields state = Idle, remaining_secs = 0,
\* phase_total_secs = 0 and last_tick_at absent, and leaves phase,
\* completed_pomodoros, finished_phase and
\* last_completed_focus_duration_secs unchanged.
StopFrame ==
    [][Stop =>
          /\ pomo'.state = Idle
          /\ pomo'.remaining_secs = 0
          /\ pomo'.phase_total_secs = 0
          /\ pomo'.last_tick_at = None
          /\ pomo'.phase = pomo.phase
          /\ pomo'.completed_pomodoros = pomo.completed_pomodoros
          /\ pomo'.finished_phase = pomo.finished_phase
          /\ pomo'.last_completed_focus_duration_secs
                 = pomo.last_completed_focus_duration_secs
          /\ pomo'.config = pomo.config]_vars

\* a break started with the Focus completion still staged, then stopped
StopFrameWitness ==
    /\ pomo.state = Idle
    /\ stale
    /\ ~run.on
    /\ cyc = 1
    /\ pomo.phase = ShortBreak
    /\ pomo.completed_pomodoros = 1
    /\ pomo.finished_phase = Some(Focus)
    /\ pomo.last_completed_focus_duration_secs # None

\* C26: toggle_pause() changes nothing in Idle, yields Paused from Running
\* and Running from Paused, and in both cases leaves remaining_secs,
\* phase_total_secs, phase, completed_pomodoros and both mailbox slots as
\* they were.
TogglePauseFrame ==
    [][TogglePause =>
          /\ pomo.state = Idle => pomo' = pomo
          /\ pomo.state = Running => pomo'.state = Paused
          /\ pomo.state = Paused => pomo'.state = Running
          /\ pomo'.remaining_secs = pomo.remaining_secs
          /\ pomo'.phase_total_secs = pomo.phase_total_secs
          /\ pomo'.phase = pomo.phase
          /\ pomo'.completed_pomodoros = pomo.completed_pomodoros
          /\ pomo'.finished_phase = pomo.finished_phase
          /\ pomo'.last_completed_focus_duration_secs
                 = pomo.last_completed_focus_duration_secs]_vars

\* a Focus countdown resumed from the value it was paused at
TogglePauseFrameWitness ==
    /\ scen.stage = "resumed"
    /\ scen.d1 = 2
    /\ pomo.state = Running
    /\ pomo.remaining_secs = 1
    /\ pomo.phase_total_secs = 3
    /\ pomo.last_tick_at = Some(scen.tr)

\* the engine state s is Idle with zeroed countdown fields
Stopped(s) ==
    /\ s.state = Idle
    /\ s.remaining_secs = 0
    /\ s.phase_total_secs = 0
    /\ s.last_tick_at = None

\* C27: reset_pomodoros_and_stop() from any state yields
\* completed_pomodoros = 0, phase = Focus and state = Idle with zeroed
\* countdown fields; the reset and done buttons leave the rows of the store
\* and the history cache as the frame's drain left them.
ResetFrame ==
    /\ [](/\ LET s == reset_pomodoros_and_stop(pomo)
             IN /\ s.completed_pomodoros = 0
                /\ s.phase = Focus
                /\ Stopped(s)
          /\ \A kind \in {"reset", "done"}, record_now \in RecordReadings(MaxHostClock) :
                 LET d == drain(pomo, current_task, focus_history, db, clock, record_now,
                                TRUE)
                     after == ui(d.pomo, [kind |-> kind], record_now)
                 IN /\ after.completed_pomodoros = 0
                    /\ after.phase = Focus
                    /\ Stopped(after))
    /\ [][(current_task' = "" /\ Stopped(pomo') /\ pomo'.phase = Focus) =>
              \A kind \in {"reset", "done"}, db_ok \in BOOLEAN, reload_ok \in BOOLEAN :
                  Update([kind |-> kind], db_ok, reload_ok, clock', clock') =>
                      LET d == drain(pomo, current_task, focus_history, db, clock, clock',
                                     db_ok)
                      IN /\ pomo' = reset_pomodoros_and_stop(d.pomo)
                         /\ db' = d.db
                         /\ focus_history' = d.focus_history]_vars

\* reset pressed in the frame that recorded a finished Focus: the record
\* holds the counter value 1, the engine is back at Focus with the counter 0
ResetFrameWitness ==
    /\ sound
    /\ pomo.phase = Focus
    /\ pomo.completed_pomodoros = 0
    /\ Stopped(pomo)
    /\ current_task = ""
    /\ Len(db) = 1
    /\ db[1].completed_pomodoros = 1
    /\ db[1].task = "A"
    /\ Len(focus_history) = 1
    /\ focus_history[1].completed_pomodoros = 1

\* C28: set_phase(p) is accepted in every state and ends with phase = p,
\* state = Idle, zeroed countdown fields and completed_pomodoros unchanged;
\* the host calls it only when the engine is Idle after the frame's tick, so
\* a phase button never changes a Running or Paused countdown.
SetPhaseFrame ==
    /\ [](\A p \in Phase :
             /\ LET s == set_phase(pomo, p)
                IN /\ s.phase = p
                   /\ Stopped(s)
                   /\ s.completed_pomodoros = pomo.completed_pomodoros
             /\ \A record_now \in RecordReadings(MaxHostClock) :
                    LET d == drain(pomo, current_task, focus_history, db, clock, record_now,
                                   TRUE)
                        after == ui(d.pomo, [kind |-> "phase", phase |-> p], record_now)
                    IN IF d.pomo.state = Idle
                       THEN after = set_phase(d.pomo, p)
                       ELSE /\ after = d.pomo
                            /\ after.state \in {Running, Paused}
                            /\ after.phase = pomo.phase)
    /\ [][(pomo'.phase # pomo.phase /\ tick(pomo, clock).state # Idle) =>
              \/ \E kind \in {"reset", "done"}, db_ok \in BOOLEAN, reload_ok \in BOOLEAN :
                     Update([kind |-> kind], db_ok, reload_ok, clock', clock')
              \/ \E reload_ok \in BOOLEAN : New(reload_ok)]_vars

\* a LongBreak selected while Idle and then started
SetPhaseFrameWitness ==
    /\ pomo.phase = LongBreak
    /\ pomo.state = Running
    /\ pomo.remaining_secs = PomodoroConfigDefault.long_break_secs - 1
    /\ pomo.completed_pomodoros = 0
    /\ db = <<>>
    /\ focus_history = <<>>

\* the engine states s and t agree on every field but the two mailbox slots
SameButMailbox(s, t) ==
    /\ t.config = s.config
    /\ t.phase = s.phase
    /\ t.state = s.state
    /\ t.remaining_secs = s.remaining_secs
    /\ t.phase_total_secs = s.phase_total_secs
    /\ t.completed_pomodoros = s.completed_pomodoros
    /\ t.last_tick_at = s.last_tick_at

\* C29: take_finished_phase() clears only finished_phase and
\* take_last_completed_focus_duration() clears only
\* last_completed_focus_duration_secs; neither changes the other slot or any
\* other field, and each returns empty when called again with no completion
\* in between.
IndependentDrain ==
    [][/\ TakeFinishedPhase =>
              /\ pomo'.finished_phase = None
              /\ pomo'.last_completed_focus_duration_secs
                     = pomo.last_completed_focus_duration_secs
              /\ SameButMailbox(pomo, pomo')
              /\ take_finished_phase(pomo').ret = None
       /\ TakeLastCompletedFocusDuration =>
              /\ pomo'.last_completed_focus_duration_secs = None
              /\ pomo'.finished_phase = pomo.finished_phase
              /\ SameButMailbox(pomo, pomo')
              /\ take_last_completed_focus_duration(pomo').ret = None]_vars

\* the duration of a finished Focus was taken, the phase is still staged
IndependentDrainWitness ==
    /\ staged = Some(Focus)
    /\ pomo.finished_phase = Some(Focus)
    /\ pomo.last_completed_focus_duration_secs = None
    /\ pomo.phase = ShortBreak
    /\ pomo.state = Idle
    /\ ~stale

\* C30: with pomodoros_before_long >= 1, completed_pomodoros is below
\* pomodoros_before_long in every state the engine operations reach from the
\* default state.
CounterBelowThreshold ==
    pomo.config.pomodoros_before_long >= 1 =>
        /\ 0 <= pomo.completed_pomodoros
        /\ pomo.completed_pomodoros < pomo.config.pomodoros_before_long

\* one Focus short of the long break
CounterBelowThresholdWitness ==
    /\ pomo.config.pomodoros_before_long = 4
    /\ pomo.completed_pomodoros = 3
    /\ pomo.phase = ShortBreak
    /\ cyc = 5

\* the horizon leaves room for the countdown of s: an effective tick that
\* takes k seconds off consumes at most k * (2 * Res - 1) clock units
RoomToFinish(s) ==
    /\ s.last_tick_at # None
    /\ s.last_tick_at[1] + s.remaining_secs * (2 * Res - 1) <= MaxClock

\* C31: a Running engine that gets no start, toggle_pause, stop, set_phase or
\* reset, and is ticked with timestamps that keep growing (ticks less than a
\* second apart included), eventually completes the phase: state = Idle and
\* finished_phase holds the phase that ended.
CountdownCompletes ==
    \A ph \in Phase :
        (pomo.state = Running /\ pomo.phase = ph /\ RoomToFinish(pomo))
            ~> (pomo.state = Idle /\ pomo.finished_phase = Some(ph))

\* a Focus phase started after time 0 and completed by ticks that came less
\* than a second apart
CountdownCompletesWitness ==
    /\ pomo.state = Idle
    /\ pomo.finished_phase = Some(Focus)
    /\ staged = Some(Focus)
    /\ run.on
    /\ run.t0 >= 1
    /\ run.D = 2
    /\ run.last = clock
    /\ scen.stage = "off"

\* C32: at the end of every host update (tick, then drain, then the buttons)
\* both mailbox slots, finished_phase and last_completed_focus_duration_secs,
\* are empty; nothing is carried over to a later frame.
MailboxEmptyAfterUpdate ==
    /\ pomo.finished_phase = None
    /\ pomo.last_completed_focus_duration_secs = None

\* a Focus completion was drained and recorded, and the short break after it
\* has completed and was drained as well
MailboxEmptyAfterUpdateWitness ==
    /\ Len(focus_history) = 1
    /\ pomo.state = Idle
    /\ pomo.phase = Focus
    /\ pomo.completed_pomodoros = 1
    /\ pomo.last_tick_at = None
    /\ pomo.finished_phase = None
    /\ pomo.last_completed_focus_duration_secs = None

\* the phase the engine is left in by the completion of this frame
LeadsTo == tick(pomo, clock).phase

\* the records a frame taken now makes of the Focus it completes: the record
\* put in the cache, whatever the clock reads for completed_at and whether or
\* not the store takes the row, and the row when the store takes it
RecordsOfFrame ==
    UNION {LET d == drain(pomo, current_task, focus_history, db, clock, record_now, db_ok)
           IN {Head(d.focus_history)} \cup (IF db_ok THEN {d.db[Len(d.db)]} ELSE {}) :
           record_now \in RecordReadings(tally.last), db_ok \in BOOLEAN}

\* what holds of a record of the Focus this frame completes, whichever way
\* the Focus phases completed since the last long break or reset are counted
RecordedAfterCompletion(rec) ==
    /\ rec.completed_pomodoros = tick(pomo, clock).completed_pomodoros
    /\ rec.completed_pomodoros \in 0..(pomo.config.pomodoros_before_long - 1)
    /\ (rec.completed_pomodoros = 0) <=> (LeadsTo = LongBreak)

\* the row a step adds to the store is one of the records of the frame
RowOfFrame ==
    db' # db => FocusCompletes /\ db'[Len(db')] \in RecordsOfFrame

RecordedInCacheOnly ==
    /\ Len(db) = PomodoroConfigDefault.pomodoros_before_long
    /\ Len(focus_history) = Len(db) + 1
    /\ Head(focus_history).completed_pomodoros = 1
    /\ tally.n = 1
    /\ ~tally.off_cycle
    /\ tally.presses = 0
    /\ tally.restarts = 0

\* the snapshot was saved during the first Focus phase, the phase completed
\* and was recorded, the application was started again from that snapshot and
\* the phase completed once more: two Focus phases completed, both recorded 1
RecordedTwiceAfterRestart ==
    /\ Len(db) = 2
    /\ db[1].completed_pomodoros = 1
    /\ db[2].completed_pomodoros = 1
    /\ tally.n = 2
    /\ tally.presses = 0
    /\ tally.saves = 1
    /\ tally.restarts = 1
    /\ tally.off_cycle

\* the application was started again from a snapshot that was up to date, and
\* the Focus phase after the automatic long break is recorded 1
RecordedAfterRestart ==
    /\ Len(db) = PomodoroConfigDefault.pomodoros_before_long + 1
    /\ db[Len(db)].completed_pomodoros = 1
    /\ tally.n = 1
    /\ tally.saves = 1
    /\ tally.restarts = 1
    /\ ~tally.off_cycle

\* a long break selected by hand after one Focus phase has completed, and the
\* Focus phase after it is recorded 2
RecordedAfterLongBreakByHand ==
    /\ Len(db) = 2
    /\ db[2].completed_pomodoros = 2
    /\ tally.n = 1
    /\ tally.restarts = 0
    /\ tally.off_cycle

\* the same with the reset button pressed after that long break: the Focus
\* phase after it is recorded 1
RecordedAfterReset ==
    /\ Len(db) = 2
    /\ db[2].completed_pomodoros = 1
    /\ tally.n = 1
    /\ tally.presses = 0
    /\ tally.restarts = 0
    /\ ~tally.off_cycle

\* Focus selected by hand in place of the long break that four Focus phases
\* earned: the fifth is recorded 1
RecordedAfterLongBreakLeftOut ==
    /\ Len(db) = PomodoroConfigDefault.pomodoros_before_long + 1
    /\ db[Len(db)].completed_pomodoros = 1
    /\ tally.n = PomodoroConfigDefault.pomodoros_before_long + 1
    /\ tally.restarts = 0
    /\ tally.off_cycle

\* the short break skipped by selecting Focus by hand: the records still
\* count the Focus phases
RecordedAfterFocusByHand ==
    /\ Len(db) = 2
    /\ db[2].completed_pomodoros = 2
    /\ db[2].completed_at - db[1].completed_at
          < Res * (PomodoroConfigDefault.focus_secs + PomodoroConfigDefault.short_break_secs)
    /\ tally.n = 2
    /\ tally.restarts = 0
    /\ ~tally.off_cycle

====
